---- MODULE Spec2Model ----
(***************************************************************************)
(* Model of gcp/datalab/_bigquery.py: the %bigquery magic's command        *)
(* registry and dispatcher, the cell-body config parser with variable      *)
(* substitution, the query-argument resolver, the UDF declaration parser   *)
(* and the cached table lookup.                                            *)
(*                                                                         *)
(* Python strings that the code inspects character by character (cell      *)
(* bodies) are sequences of one-character strings.  A Python exception is  *)
(* the field "raised" of an outcome record ("" when nothing was raised).   *)
(***************************************************************************)
EXTENDS Integers, Sequences, FiniteSets, TLC

VARIABLES user_ns, _table_cache, bq_tables, out, got, steps, hits

vars == <<user_ns, _table_cache, bq_tables, out, got, steps, hits>>

(***************************************************************************)
(* Generic helpers on sequences.                                           *)
(***************************************************************************)
Range(s) == {s[i] : i \in 1..Len(s)}

SeqFrom(s, i) == IF i > Len(s) THEN <<>> ELSE SubSeq(s, i, Len(s))

IndexOf(s, e) == CHOOSE i \in 1..Len(s) : s[i] = e

Remove(s, e) == SelectSeq(s, LAMBDA x : x # e)

(***************************************************************************)
(* Cell bodies.  A cell is None (a line magic) or a text.                  *)
(***************************************************************************)
NoCell == [none |-> TRUE, text |-> <<>>]

Cell(chars) == [none |-> FALSE, text |-> chars]

Whitespace == {" ", "\n", "\t"}

RECURSIVE lstrip(_)
lstrip(s) == IF s # <<>> /\ Head(s) \in Whitespace THEN lstrip(Tail(s)) ELSE s

RECURSIVE rstrip(_)
rstrip(s) ==
  IF s # <<>> /\ s[Len(s)] \in Whitespace THEN rstrip(SubSeq(s, 1, Len(s) - 1)) ELSE s

strip(s) == rstrip(lstrip(s))

\* Python truth value of a cell: None and '' are false.
Truthy(cell) == ~cell.none /\ Len(cell.text) > 0

(***************************************************************************)
(* Python values.  Every value has the same record shape so that any two   *)
(* can be compared: t is the type, chars the text of a string (or the name *)
(* of a table, the text of a query), n the integer (or the identity of an  *)
(* object), kids the items of a dict (key, value) or of a list (key <<>>). *)
(***************************************************************************)
Val(t, chars, n, kids) == [t |-> t, chars |-> chars, n |-> n, kids |-> kids]

None == Val("None", <<>>, 0, <<>>)

IntVal(n) == Val("int", <<>>, n, <<>>)

Str(chars) == Val("str", chars, 0, <<>>)

Item(k, v) == [k |-> k, v |-> v]

Dict(items) == Val("dict", <<>>, 0, items)

List(values) == Val("list", <<>>, 0, [i \in 1..Len(values) |-> Item(<<>>, values[i])])

\* dict operations on the items of a dict
Keys(items) == {items[i].k : i \in 1..Len(items)}

Get(items, k) == items[CHOOSE i \in 1..Len(items) : items[i].k = k].v

Put(items, k, v) ==
  IF k \in Keys(items)
  THEN [i \in 1..Len(items) |-> IF items[i].k = k THEN Item(k, v) ELSE items[i]]
  ELSE Append(items, Item(k, v))

RECURSIVE Update(_, _)
Update(items, other) ==
  IF other = <<>> THEN items
  ELSE Update(Put(items, Head(other).k, Head(other).v), Tail(other))

\* The result of a call: the exception raised ("" for none, with the name the
\* message carries) or the value returned.
Return(v) == [raised |-> "", about |-> <<>>, val |-> v, made |-> 0]

Raise(kind, about) == [raised |-> kind, about |-> about, val |-> None, made |-> 0]

(***************************************************************************)
(* The names and cell bodies used as inputs.                               *)
(***************************************************************************)
name_x == <<"x">>

name_a == <<"a">>

name_nosuch == <<"n", "o">>

Quoted(chars) == <<"\"">> \o chars \o <<"\"">>

\* {"a":"$x"}
BodyRef == <<"{">> \o Quoted(name_a) \o <<":">> \o Quoted(<<"$">> \o name_x) \o <<"}">>

\* {"a":"$no"}
BodyBadRef == <<"{">> \o Quoted(name_a) \o <<":">> \o Quoted(<<"$">> \o name_nosuch) \o <<"}">>

\* {"a":7,"x":3}
BodyInt == <<"{">> \o Quoted(name_a) \o <<":", "7", ",">> \o Quoted(name_x) \o <<":", "3", "}">>

\* {"x":["$$x","b"]}
BodyList ==
  <<"{">> \o Quoted(name_x) \o <<":", "[">> \o Quoted(<<"$", "$">> \o name_x) \o <<",">>
    \o Quoted(<<"b">>) \o <<"]", "}">>

\* {"x":{"a":"b"}}
BodyNested ==
  <<"{">> \o Quoted(name_x) \o <<":", "{">> \o Quoted(name_a) \o <<":">> \o Quoted(<<"b">>)
    \o <<"}", "}">>

\* {"a"      (not JSON)
BodyBroken == <<" ", "{">> \o Quoted(name_a)

\* a: $x     (YAML)
BodyYaml == name_a \o <<":", " ", "$">> \o name_x \o <<"\n">>

BodyBlank == <<" ", "\n">>

(***************************************************************************)
(* json.loads and yaml.load are library parsers: they are given by their   *)
(* results on the bodies above, and raise on every other text.             *)
(***************************************************************************)
json_loads(text) ==
  CASE text = BodyRef -> Return(Dict(<<Item(name_a, Str(<<"$">> \o name_x))>>))
    [] text = BodyBadRef -> Return(Dict(<<Item(name_a, Str(<<"$">> \o name_nosuch))>>))
    [] text = BodyInt -> Return(Dict(<<Item(name_a, IntVal(7)), Item(name_x, IntVal(3))>>))
    [] text = BodyList ->
         Return(Dict(<<Item(name_x, List(<<Str(<<"$", "$">> \o name_x), Str(<<"b">>)>>))>>))
    [] text = BodyNested ->
         Return(Dict(<<Item(name_x, Dict(<<Item(name_a, Str(<<"b">>))>>))>>))
    [] OTHER -> Raise("ValueError", <<>>)

yaml_load(text) ==
  CASE text = BodyYaml -> Return(Dict(<<Item(name_a, Str(<<"$">> \o name_x))>>))
    [] OTHER -> Raise("YAMLError", <<>>)

(***************************************************************************)
(* _parse_config: parse a cell body and replace its variable references.   *)
(***************************************************************************)
startswith(v, c) == v # <<>> /\ Head(v) = c

\* The methods of a Python string that the code calls.
StrMethods == {"startswith", "strip", "split", "find"}

expand_var_every_string(v, env) ==
  IF startswith(v, "$")
  THEN LET v1 == Tail(v) IN
       IF "startwith" \notin StrMethods
       THEN Raise("AttributeError", <<>>)
       ELSE IF ~startswith(v1, "$")
            THEN IF v1 \in DOMAIN env
                 THEN Return(env[v1])
                 ELSE Raise("Exception", v1)
            ELSE Return(Str(v1))
  ELSE IF v \in DOMAIN env THEN Return(env[v]) ELSE Return(Str(v))

expand_var(v, env) ==
  IF startswith(v, "$")
  THEN LET v1 == Tail(v) IN
       IF "startwith" \notin StrMethods
       THEN Raise("AttributeError", <<>>)
       ELSE IF ~startswith(v1, "$")
            THEN IF v1 \in DOMAIN env
                 THEN Return(env[v1])
                 ELSE Raise("Exception", v1)
            ELSE Return(Str(v1))
  ELSE Return(Str(v))

IsContainer(v) == v.t \in {"dict", "list", "tuple"}

IsString(v) == v.t = "str"

\* The two for loops of replace_vars are the same loop over the items of a
\* dict or the elements of a list: i is the position reached.
RECURSIVE replace_vars(_, _)
RECURSIVE replace_each(_, _, _)
replace_each(config, env, i) ==
  IF i > Len(config.kids) THEN Return(config)
  ELSE LET v == config.kids[i].v
           next(r) == IF r.raised # "" THEN r
                      ELSE replace_each([config EXCEPT !.kids[i].v = r.val], env, i + 1)
       IN next(IF IsContainer(v) THEN replace_vars(v, env)
               ELSE IF IsString(v) THEN expand_var(v.chars, env)
               ELSE Return(v))

replace_vars(config, env) ==
  IF config.t = "dict" THEN replace_each(config, env, 1)
  ELSE IF config.t \in {"list", "tuple"} THEN replace_each(config, env, 1)
  ELSE Return(config)

\* Lines 328-334 of _parse_config: the text of a cell as a Python value.
loads(config) ==
  LET stripped == strip(config)
  IN IF Len(stripped) = 0 THEN Return(Dict(<<>>))
     ELSE IF stripped[1] = "{" THEN json_loads(config)
     ELSE yaml_load(config)

_parse_config(config, env) ==
  IF config.none THEN Return(None)
  ELSE LET replaced(parsed) ==
             IF parsed.raised # "" THEN parsed ELSE replace_vars(parsed.val, env)
       IN replaced(loads(config.text))

(***************************************************************************)
(* The notebook environment and the objects bound in it.                   *)
(***************************************************************************)
\* gcp.bigquery.Query(sql, **env): a new object has identity 0, an object
\* bound in the notebook a positive one.
Query(sql, params) == Val("Query", sql, 0, params)

Table(name) == Val("Table", name, 0, <<>>)

SqlStatement(text, defaults) == Val("SqlStatement", text, 0, defaults)

name_myquery == <<"m", "y", "q", "u", "e", "r", "y">>

name_tmpl == <<"t", "m", "p", "l">>

name_b == <<"b">>

name_tv == <<"t", "v">>

name_module == <<"u">>

sql_myquery == <<"S", "1">>

sql_tmpl == <<"S", "2">>

BoundQuery == [Query(sql_myquery, <<>>) EXCEPT !.n = 1]

Template == SqlStatement(sql_tmpl, <<Item(name_a, IntVal(1)), Item(name_b, IntVal(2))>>)

\* gcp._util.get_item: the binding of a name, None when there is none.
get_item(env, name) ==
  IF name.t = "str" /\ name.chars \in DOMAIN env THEN env[name.chars] ELSE None

_get_notebook_item(ns, name) == get_item(ns, name)

\* gcp.data.SqlModule.get_sql_statement_with_environment: the text and the
\* default environment of a template.
get_sql_statement_with_environment(item, env) ==
  IF item.t = "SqlStatement"
  THEN [raised |-> "", about |-> <<>>, item |-> item.chars, env |-> item.kids]
  ELSE [raised |-> "ReferenceNotFound", about |-> item.chars, item |-> <<>>, env |-> <<>>]

\* Python truth value of a parsed config: None and {} are false.
NonEmpty(config) == config.t # "None" /\ ~(config.t \in {"dict", "list"} /\ config.kids = <<>>)

_get_query_argument_applying(ns, args, config, env) ==
  LET sql_arg == args.sql
      query(r) ==
        IF r.raised # "" THEN Raise(r.raised, r.about)
        ELSE [Return(Query(r.item, IF NonEmpty(config) THEN Update(r.env, config.kids)
                                   ELSE r.env)) EXCEPT !.made = 1]
      found(item) ==
        IF item.t = "Query"
        THEN IF NonEmpty(config)
             THEN [Return(Query(item.chars, Update(item.kids, config.kids))) EXCEPT !.made = 1]
             ELSE Return(item)
        ELSE query(get_sql_statement_with_environment(item, env))
  IN found(_get_notebook_item(ns, sql_arg))

_get_query_argument_defaults_win(ns, args, config, env) ==
  LET sql_arg == args.sql
      query(r) ==
        IF r.raised # "" THEN Raise(r.raised, r.about)
        ELSE [Return(Query(r.item, IF NonEmpty(config) THEN Update(config.kids, r.env)
                                   ELSE r.env)) EXCEPT !.made = 1]
      found(item) ==
        IF item.t = "Query" THEN Return(item)
        ELSE query(get_sql_statement_with_environment(item, env))
  IN found(_get_notebook_item(ns, sql_arg))

_get_query_argument_unchecked(ns, args, config, env) ==
  LET sql_arg == args.sql
      query(r) ==
        IF r.raised # "" THEN Raise(r.raised, r.about)
        ELSE [Return(Query(r.item, IF NonEmpty(config) THEN Update(r.env, config.kids)
                                   ELSE r.env)) EXCEPT !.made = 1]
      found(item) ==
        IF item.t = "Query" THEN Return(item)
        ELSE IF item.t = "None"
             THEN [Return(Query(<<>>, IF NonEmpty(config) THEN config.kids ELSE <<>>))
                     EXCEPT !.made = 1]
             ELSE query(get_sql_statement_with_environment(item, env))
  IN found(_get_notebook_item(ns, sql_arg))

_get_query_argument(ns, args, config, env) ==
  LET sql_arg == args.sql
      \* lines 357-360, r being the (item, env) of line 357
      query(r) ==
        IF r.raised # "" THEN Raise(r.raised, r.about)
        ELSE [Return(Query(r.item, IF NonEmpty(config) THEN Update(r.env, config.kids)
                                   ELSE r.env)) EXCEPT !.made = 1]
      \* lines 354-360, item being the item of line 353
      found(item) ==
        IF item.t = "Query" THEN Return(item)
        ELSE query(get_sql_statement_with_environment(item, env))
  IN found(_get_notebook_item(ns, sql_arg))

(***************************************************************************)
(* The UDF declaration parser of _udf_cell.                                *)
(***************************************************************************)
Lower ==
  {"a", "b", "c", "d", "e", "f", "g", "h", "i", "j", "k", "l", "m",
   "n", "o", "p", "q", "r", "s", "t", "u", "v", "w", "x", "y", "z"}

Upper ==
  {"A", "B", "C", "D", "E", "F", "G", "H", "I", "J", "K", "L", "M",
   "N", "O", "P", "Q", "R", "S", "T", "U", "V", "W", "X", "Y", "Z"}

Digits == {"0", "1", "2", "3", "4", "5", "6", "7", "8", "9"}

\* [a-z_] and [a-z0-9_] under re.IGNORECASE
IdStart == Lower \cup Upper \cup {"_"}

IdPart == IdStart \cup Digits

\* The first position from i on that holds a "}" (Len + 1 when none does).
RECURSIVE NextClose(_, _)
NextClose(js, i) ==
  IF i > Len(js) \/ js[i] = "}" THEN i ELSE NextClose(js, i + 1)

\* re.findall(r'\{\{([^}]+)\}\}', js) from position i on: the groups of the
\* leftmost non-overlapping matches.
RECURSIVE findall_spec(_, _)
findall_spec(js, i) ==
  IF i + 1 > Len(js) THEN <<>>
  ELSE IF js[i] = "{" /\ js[i + 1] = "{"
       THEN LET j == NextClose(js, i + 2)
            IN IF j > i + 2 /\ j + 1 <= Len(js) /\ js[j + 1] = "}"
               THEN <<SubSeq(js, i + 2, j - 1)>> \o findall_spec(js, j + 2)
               ELSE findall_spec(js, i + 1)
       ELSE findall_spec(js, i + 1)

\* The end of the longest run of [a-z0-9_] that starts at i.
RECURSIVE IdEnd(_, _)
IdEnd(text, i) ==
  IF i + 1 <= Len(text) /\ text[i + 1] \in IdPart THEN IdEnd(text, i + 1) ELSE i

\* re.findall(r'[a-z_][a-z0-9_]*', text, flags=re.IGNORECASE) from i on
RECURSIVE findall_part(_, _)
findall_part(text, i) ==
  IF i > Len(text) THEN <<>>
  ELSE IF text[i] \in IdStart
       THEN LET j == IdEnd(text, i)
            IN <<SubSeq(text, i, j)>> \o findall_part(text, j + 1)
       ELSE findall_part(text, i + 1)

\* parts[0::2] and parts[1::2]
EvenSlice(parts) == [i \in 1..((Len(parts) + 1) \div 2) |-> parts[2 * i - 1]]

OddSlice(parts) == [i \in 1..(Len(parts) \div 2) |-> parts[2 * i]]

Min(a, b) == IF a <= b THEN a ELSE b

zip(a, b) == [i \in 1..Min(Len(a), Len(b)) |-> <<a[i], b[i]>>]

parse_udf_spec_first_group_twice(js) ==
  LET paired(parts) == zip(EvenSlice(parts), OddSlice(parts))
      output_emitter(inputs, output_spec_parts) ==
        IF Len(output_spec_parts) % 2 # 0
        THEN [raised |-> "MalformedOutputSpec", inputs |-> <<>>, outputs |-> <<>>]
        ELSE [raised |-> "", inputs |-> inputs, outputs |-> paired(output_spec_parts)]
      input_row(specs, input_spec_parts) ==
        IF Len(input_spec_parts) % 2 # 0
        THEN [raised |-> "MalformedInputSpec", inputs |-> <<>>, outputs |-> <<>>]
        ELSE output_emitter(paired(input_spec_parts), findall_part(specs[1], 1))
      declared(specs) ==
        IF Len(specs) < 2
        THEN [raised |-> "MissingSpec", inputs |-> <<>>, outputs |-> <<>>]
        ELSE input_row(specs, findall_part(specs[1], 1))
  IN declared(findall_spec(js, 1))

\* Lines 440-466 of _udf_cell: the input and the output specification of js.
parse_udf_spec(js) ==
  LET paired(parts) == zip(EvenSlice(parts), OddSlice(parts))
      output_emitter(inputs, output_spec_parts) ==
        IF Len(output_spec_parts) % 2 # 0
        THEN [raised |-> "MalformedOutputSpec", inputs |-> <<>>, outputs |-> <<>>]
        ELSE [raised |-> "", inputs |-> inputs, outputs |-> paired(output_spec_parts)]
      input_row(specs, input_spec_parts) ==
        IF Len(input_spec_parts) % 2 # 0
        THEN [raised |-> "MalformedInputSpec", inputs |-> <<>>, outputs |-> <<>>]
        ELSE output_emitter(paired(input_spec_parts), findall_part(specs[2], 1))
      declared(specs) ==
        IF Len(specs) < 2
        THEN [raised |-> "MissingSpec", inputs |-> <<>>, outputs |-> <<>>]
        ELSE input_row(specs, findall_part(specs[1], 1))
  IN declared(findall_spec(js, 1))

\* gcp.bigquery.UDF(inputs, outputs, variable_name, js)
Pairs(fields) ==
  List([i \in 1..Len(fields) |-> List(<<Str(fields[i][1]), Str(fields[i][2])>>)])

UDF(inputs, outputs, variable_name, js) ==
  Val("UDF", variable_name, 0,
      <<Item(<<>>, Pairs(inputs)), Item(<<>>, Pairs(outputs)), Item(<<>>, Str(js))>>)

(***************************************************************************)
(* The table cache (gcp._util.LRUCache) and the table lookup.              *)
(* _table_cache lists the cached names, least recently touched first; the  *)
(* handle cached under a name is Table(name).                              *)
(***************************************************************************)
CapacityOffByOne == 10 + 1

Capacity == 10

\* _table_cache[name]: the handle, which becomes the most recent entry, or
\* KeyError
LRU_getitem(cache, name) ==
  IF name \in Range(cache)
  THEN [raised |-> "", val |-> Table(name), cache |-> Append(Remove(cache, name), name)]
  ELSE [raised |-> "KeyError", val |-> None, cache |-> cache]

\* _table_cache[name] = table
LRU_setitem(cache, name) ==
  LET rest == Remove(cache, name)
  IN IF Len(rest) >= Capacity THEN Append(Tail(rest), name) ELSE Append(rest, name)

\* table.exists(): asks the warehouse
exists(tables, table) == table.chars \in tables

\* Python truth value of a value
Falsy(v) ==
  \/ v.t = "None"
  \/ v.t = "int" /\ v.n = 0
  \/ v.t = "str" /\ v.chars = <<>>
  \/ v.t \in {"dict", "list"} /\ v.kids = <<>>

_get_table_peeking(ns, cache, tables, name) ==
  LET looked(cached) ==
        IF cached.raised = ""
        THEN [val |-> cached.val, cache |-> cache, hit |-> TRUE, probed |-> {}]
        ELSE LET table == Table(name.chars)
             IN IF exists(tables, table)
                THEN [val |-> table, cache |-> LRU_setitem(cache, name.chars),
                      hit |-> FALSE, probed |-> {name.chars}]
                ELSE [val |-> None, cache |-> cache, hit |-> FALSE,
                      probed |-> {name.chars}]
      found(item) ==
        IF item.t = "Table"
        THEN [val |-> item, cache |-> cache, hit |-> FALSE, probed |-> {}]
        ELSE looked(LRU_getitem(cache, name.chars))
  IN found(_get_notebook_item(ns, name))

_get_table_caching_first(ns, cache, tables, name) ==
  LET looked(cached) ==
        IF cached.raised = ""
        THEN [val |-> cached.val, cache |-> cached.cache, hit |-> TRUE, probed |-> {}]
        ELSE LET table == Table(name.chars)
             IN [val |-> IF exists(tables, table) THEN table ELSE None,
                 cache |-> LRU_setitem(cache, name.chars),
                 hit |-> FALSE, probed |-> {name.chars}]
      found(item) ==
        IF item.t = "Table"
        THEN [val |-> item, cache |-> cache, hit |-> FALSE, probed |-> {}]
        ELSE looked(LRU_getitem(cache, name.chars))
  IN found(_get_notebook_item(ns, name))

\* The result carries the cache after the lookup, whether the cache held the
\* name, and the names whose existence was asked of the warehouse.
_get_table(ns, cache, tables, name) ==
  LET looked(cached) ==
        IF cached.raised = ""
        THEN [val |-> cached.val, cache |-> cached.cache, hit |-> TRUE, probed |-> {}]
        ELSE LET table == Table(name.chars)
             IN IF exists(tables, table)
                THEN [val |-> table, cache |-> LRU_setitem(cache, name.chars),
                      hit |-> FALSE, probed |-> {name.chars}]
                ELSE [val |-> None, cache |-> cache, hit |-> FALSE,
                      probed |-> {name.chars}]
      found(item) ==
        IF item.t = "Table"
        THEN [val |-> item, cache |-> cache, hit |-> FALSE, probed |-> {}]
        ELSE looked(LRU_getitem(cache, name.chars))
  IN found(_get_notebook_item(ns, name))

NotLooked(cache) == [val |-> None, cache |-> cache, hit |-> FALSE, probed |-> {}]

\* looked is what the table lookup did, when there was one.
_get_schema(ns, cache, tables, name) ==
  LET schema(item) ==
        IF item.t = "Schema" THEN item
        ELSE IF item.t = "Table" THEN Val("Schema", item.chars, 0, <<>>)
        ELSE None
      tabled(looked) == [looked |-> looked, schema |-> schema(looked.val)]
      found(item) ==
        IF Falsy(item) THEN tabled(_get_table(ns, cache, tables, name))
        ELSE [looked |-> NotLooked(cache), schema |-> schema(item)]
  IN found(_get_notebook_item(ns, name))

(***************************************************************************)
(* The handlers.  A handler is given the session (notebook environment,    *)
(* table cache, tables of the warehouse) and answers with what it raised   *)
(* or returned and the session it leaves: ns, cache, tables.  The other    *)
(* fields record what it did: the parsed config, the query it resolved,    *)
(* the number of Query objects it constructed, the handle its table lookup *)
(* gave, whether that was a cache hit, and the existence checks made by    *)
(* the lookup.                                                             *)
(***************************************************************************)
Handled(ns, cache, tables) ==
  [raised |-> "", about |-> <<>>, ret |-> None, config |-> None, query |-> None,
   made |-> 0, lookup |-> None, hit |-> FALSE, probed |-> {},
   ns |-> ns, cache |-> cache, tables |-> tables]

Failed(h, r) == [h EXCEPT !.raised = r.raised, !.about = r.about]

\* config = _parse_config(config, env); query = _get_query_argument(args, config, env)
QueryOfCell(h, args, config, env) ==
  LET resolved(c, q) ==
        IF q.raised # "" THEN [Failed(h, q) EXCEPT !.config = c.val]
        ELSE [h EXCEPT !.config = c.val, !.query = q.val, !.made = q.made]
      parsed(c) ==
        IF c.raised # "" THEN Failed(h, c)
        ELSE resolved(c, _get_query_argument(h.ns, args, c.val, env))
  IN parsed(_parse_config(config, env))

Sampling(args) ==
  IF args.method = "random" THEN "Sampling.random"
  ELSE IF args.method = "hashed" THEN "Sampling.hashed"
  ELSE IF args.method = "sorted" THEN "Sampling.sorted"
  ELSE "Sampling.default"

_sample_cell(h, args, config) ==
  LET env == h.ns
      sample(r) ==
        IF r.raised # "" THEN r
        ELSE [r EXCEPT !.ret = Val(Sampling(args), r.query.chars, args.count, r.query.kids)]
  IN sample(QueryOfCell(h, args, config, env))

_dryrun_cell(h, args, config) ==
  LET env == h.ns
      execute_dry_run(r) ==
        IF r.raised # "" THEN r
        ELSE [r EXCEPT !.ret = Val("QueryStats", r.query.chars, 0, r.query.kids)]
  IN execute_dry_run(QueryOfCell(h, args, config, env))

_execute_cell(h, args, config) ==
  LET env == h.ns
      execute(r) ==
        IF r.raised # "" THEN r
        ELSE [r EXCEPT !.ret = Val("QueryResultsTable", r.query.chars, 0, r.query.kids)]
  IN execute(QueryOfCell(h, args, config, env))

\* The FunctionCall values of the notebook environment
FunctionCalls(ns) == [k \in {k \in DOMAIN ns : ns[k].t = "FunctionCall"} |-> ns[k]]

_pipeline_cell(h, args, config) ==
  IF args.action = "deploy" THEN [h EXCEPT !.ret = Val("NotSupportedMessage", <<>>, 0, <<>>)]
  ELSE LET env == FunctionCalls(h.ns)
           act(r) ==
             IF r.raised # "" THEN r
             ELSE IF args.action = "dryrun"
                  THEN [r EXCEPT !.ret = Val("QueryStats", r.query.chars, 0, r.query.kids)]
                  ELSE IF args.action = "run"
                       THEN [r EXCEPT !.ret = Val("QueryResultsTable", r.query.chars, 0,
                                                  r.query.kids)]
                       ELSE r
       IN act(QueryOfCell(h, args, config, env))

_udf_cell_binding_first(h, args, js) ==
  LET variable_name == args.module
      bind(udf) == [h EXCEPT !.ns = [k \in DOMAIN h.ns \cup {variable_name} |->
                                       IF k = variable_name THEN udf ELSE h.ns[k]]]
      declare(spec) ==
        IF spec.raised # ""
        THEN Failed(bind(UDF(spec.inputs, spec.outputs, variable_name, js.text)),
                    Raise(spec.raised, <<>>))
        ELSE bind(UDF(spec.inputs, spec.outputs, variable_name, js.text))
  IN IF variable_name = <<>> THEN Failed(h, Raise("BadDeclaration", <<>>))
     ELSE declare(parse_udf_spec(js.text))

_udf_cell(h, args, js) ==
  LET variable_name == args.module
      bind(udf) == [h EXCEPT !.ns = [k \in DOMAIN h.ns \cup {variable_name} |->
                                       IF k = variable_name THEN udf ELSE h.ns[k]]]
      declare(spec) ==
        IF spec.raised # "" THEN Failed(h, Raise(spec.raised, <<>>))
        ELSE bind(UDF(spec.inputs, spec.outputs, variable_name, js.text))
  IN IF variable_name = <<>> THEN Failed(h, Raise("BadDeclaration", <<>>))
     ELSE declare(parse_udf_spec(js.text))

_table_viewer_below_page(table, rows_per_page, length, fetched_count) ==
  LET total_count == IF length < 0 /\ fetched_count < rows_per_page
                     THEN fetched_count ELSE length
      chart == IF 0 <= total_count /\ total_count < rows_per_page
               THEN "table" ELSE "paged_table"
  IN Val(chart, table.chars, total_count, <<>>)

\* Lines 721-730 of _table_viewer: the total row count and the chart.
_table_viewer(table, rows_per_page, length, fetched_count) ==
  LET total_count == IF length < 0 /\ fetched_count < rows_per_page
                     THEN fetched_count ELSE length
      chart == IF 0 <= total_count /\ total_count <= rows_per_page
               THEN "table" ELSE "paged_table"
  IN Val(chart, table.chars, total_count, <<>>)

_table_line(h, args, meta) ==
  IF "table" \notin DOMAIN args THEN Failed(h, Raise("KeyError", <<>>))
  ELSE LET name == args.table
           view(t, r) ==
             IF ~Falsy(t.val) /\ exists(h.tables, t.val)
             THEN [r EXCEPT
                     !.ret = _table_viewer(t.val, args.rows, meta.length, meta.fetched)]
             ELSE [r EXCEPT !.ret = Val("NotExistMessage", name.chars, 0, <<>>)]
           looked(t) ==
             view(t, [h EXCEPT !.cache = t.cache, !.lookup = t.val, !.hit = t.hit,
                               !.probed = t.probed])
       IN looked(_get_table(h.ns, h.cache, h.tables, name))

_schema_line(h, args) ==
  LET name == args.item
      render(s, r) ==
        IF ~Falsy(s.schema)
        THEN [r EXCEPT !.ret = Val("SchemaHTML", s.schema.chars, 0, <<>>)]
        ELSE [r EXCEPT !.ret = Val("NotExistMessage", name.chars, 0, <<>>)]
      looked(s, t) ==
        render(s, [h EXCEPT !.cache = t.cache, !.lookup = t.val, !.hit = t.hit,
                            !.probed = t.probed])
      got_schema(s) == looked(s, s.looked)
  IN got_schema(_get_schema(h.ns, h.cache, h.tables, name))

_datasets_line(h, args) == [h EXCEPT !.ret = Val("DatasetsHTML", args.project, 0, <<>>)]

_tables_line(h, args) ==
  IF args.dataset # <<>>
  THEN [h EXCEPT !.ret = Val("TablesHTML", args.dataset, 0, <<>>)]
  ELSE [h EXCEPT !.ret = Val("TablesHTML", args.project, 0, <<>>)]

JobResult_errors_first(job, failure, partial) ==
  IF job.errors # 0 THEN Val(partial, <<>>, job.errors, <<>>)
  ELSE IF job.failed THEN Val(failure, <<>>, job.fatal_error, <<>>)
  ELSE None

\* What the directive returns for the job the warehouse ran (lines 639-642
\* and 670-673).
JobResult(job, failure, partial) ==
  IF job.failed THEN Val(failure, <<>>, job.fatal_error, <<>>)
  ELSE IF job.errors # 0 THEN Val(partial, <<>>, job.errors, <<>>)
  ELSE None

_extract_line(h, args, job) ==
  LET name == args.source
      extract(source, r) ==
        IF Falsy(source) THEN [r EXCEPT !.ret = Val("NoSuchSourceMessage", name.chars, 0, <<>>)]
        ELSE IF source.t = "Table" /\ ~exists(h.tables, source)
             THEN [r EXCEPT !.ret = Val("NotExistMessage", name.chars, 0, <<>>)]
             ELSE IF source.t \notin {"Table", "Query"}
                  THEN Failed(r, Raise("AttributeError", <<>>))
                  ELSE [r EXCEPT !.ret = JobResult(job, "ExtractFailed", "ExtractErrors")]
      looked(source, t) ==
        extract(source, [h EXCEPT !.cache = t.cache, !.lookup = t.val, !.hit = t.hit,
                                  !.probed = t.probed])
      tabled(t) == looked(t.val, t)
      found(item) ==
        IF Falsy(item) THEN tabled(_get_table(h.ns, h.cache, h.tables, name))
        ELSE looked(item, NotLooked(h.cache))
  IN found(_get_notebook_item(h.ns, name))

_load_cell(h, args, schema, job) ==
  LET name == args.table
      created(table, loaded, r, parsed) ==
        IF parsed.raised # "" THEN Failed(r, parsed)
        ELSE [loaded EXCEPT !.tables = h.tables \cup {table.chars}]
      load(table, r, loaded) ==
        IF exists(h.tables, table)
        THEN IF args.mode = "create"
             THEN [r EXCEPT !.ret = Val("AlreadyExistsMessage", name.chars, 0, <<>>)]
             ELSE loaded
        ELSE IF Truthy(schema)
             THEN created(table, loaded, r, json_loads(schema.text))
             ELSE IF ~args.infer
                  THEN [r EXCEPT !.ret = Val("CannotLoadMessage", <<>>, 0, <<>>)]
                  ELSE loaded
      looked(t, r) ==
        load(IF Falsy(t.val) THEN Table(name.chars) ELSE t.val, r,
             [r EXCEPT !.ret = JobResult(job, "LoadFailed", "LoadErrors")])
      got_table(t) ==
        looked(t, [h EXCEPT !.cache = t.cache, !.lookup = t.val, !.hit = t.hit,
                            !.probed = t.probed])
  IN got_table(_get_table(h.ns, h.cache, h.tables, name))

(***************************************************************************)
(* The command registry and the dispatcher.                                *)
(***************************************************************************)
Registered(handler, cell_required, cell_prohibited) ==
  [handler |-> handler, cell_required |-> cell_required, cell_prohibited |-> cell_prohibited]

\* _create_bigquery_parser: the handler and the cell flags bound to each command
_create_bigquery_parser ==
  [sample |-> Registered("_sample_cell", FALSE, FALSE),
   dryrun |-> Registered("_dryrun_cell", FALSE, TRUE),
   udf |-> Registered("_udf_cell", TRUE, FALSE),
   execute |-> Registered("_execute_cell", FALSE, FALSE),
   pipeline |-> Registered("_pipeline_cell", FALSE, FALSE),
   table |-> Registered("_table_line", FALSE, TRUE),
   schema |-> Registered("_schema_line", FALSE, TRUE),
   datasets |-> Registered("_datasets_line", FALSE, TRUE),
   tables |-> Registered("_tables_line", FALSE, TRUE),
   extract |-> Registered("_extract_line", FALSE, TRUE),
   load |-> Registered("_load_cell", FALSE, FALSE)]

CommandNames == DOMAIN _create_bigquery_parser

\* The number of parameters in the def of each handler
Parameters ==
  [_sample_cell |-> 2, _dryrun_cell |-> 2, _udf_cell |-> 2, _execute_cell |-> 2,
   _pipeline_cell |-> 2, _table_line |-> 1, _schema_line |-> 1, _datasets_line |-> 1,
   _tables_line |-> 1, _extract_line |-> 1, _load_cell |-> 2]

\* The keys args[...] that the def of each handler reads, those read by
\* _get_query_argument for it included
Reads ==
  [_sample_cell |-> {"sql", "count", "method", "percent", "field", "order"},
   _dryrun_cell |-> {"sql"},
   _udf_cell |-> {"module"},
   _execute_cell |-> {"sql", "target", "mode", "nocache", "large"},
   _pipeline_cell |-> {"action", "sql", "target", "mode", "nocache", "large"},
   _table_line |-> {"table", "cols", "rows"},
   _schema_line |-> {"item"},
   _datasets_line |-> {"project"},
   _tables_line |-> {"dataset", "project"},
   _extract_line |-> {"source", "destination", "format", "compress", "delimiter", "header"},
   _load_cell |-> {"table", "mode", "source", "format", "delimiter", "skip", "strict",
                   "quote", "infer"}]

_dispatch_handler_none_only(cell, cell_required, cell_prohibited) ==
  IF cell_prohibited
  THEN IF Truthy(cell) /\ Len(strip(cell.text)) # 0
       THEN [print_help |-> TRUE, raised |-> "UnexpectedCell", passed |-> 0]
       ELSE [print_help |-> FALSE, raised |-> "", passed |-> 1]
  ELSE IF cell_required /\ cell.none
       THEN [print_help |-> TRUE, raised |-> "MissingCell", passed |-> 0]
       ELSE [print_help |-> FALSE, raised |-> "", passed |-> 2]

\* The cell check: whether the help was printed, what was raised, and the
\* number of arguments the handler is called with (0: not called).
_dispatch_handler(cell, cell_required, cell_prohibited) ==
  IF cell_prohibited
  THEN IF Truthy(cell) /\ Len(strip(cell.text)) # 0
       THEN [print_help |-> TRUE, raised |-> "UnexpectedCell", passed |-> 0]
       ELSE [print_help |-> FALSE, raised |-> "", passed |-> 1]
  ELSE IF cell_required /\ ~Truthy(cell)
       THEN [print_help |-> TRUE, raised |-> "MissingCell", passed |-> 0]
       ELSE [print_help |-> FALSE, raised |-> "", passed |-> 2]

\* The call handler(args) or handler(args, cell) of the named handler.  in
\* holds what the warehouse will answer: the job of an extract or load, the
\* length and the fetched rows of a viewed table.
Call(handler, h, args, cell, in) ==
  CASE handler = "_sample_cell" -> _sample_cell(h, args, cell)
    [] handler = "_dryrun_cell" -> _dryrun_cell(h, args, cell)
    [] handler = "_udf_cell" -> _udf_cell(h, args, cell)
    [] handler = "_execute_cell" -> _execute_cell(h, args, cell)
    [] handler = "_pipeline_cell" -> _pipeline_cell(h, args, cell)
    [] handler = "_table_line" -> _table_line(h, args, in)
    [] handler = "_schema_line" -> _schema_line(h, args)
    [] handler = "_datasets_line" -> _datasets_line(h, args)
    [] handler = "_tables_line" -> _tables_line(h, args)
    [] handler = "_extract_line" -> _extract_line(h, args, in)
    [] handler = "_load_cell" -> _load_cell(h, args, cell, in)

\* One directive: %bigquery <cmd> <args> with the cell, run to completion.
\* entered tells whether the body of the handler ran.
Outcome(cmd, args, cell, in) ==
  LET reg == _create_bigquery_parser[cmd]
      h == Handled(user_ns, _table_cache, bq_tables)
      d == _dispatch_handler(cell, reg.cell_required, reg.cell_prohibited)
      called == d.raised = "" /\ d.passed = Parameters[reg.handler]
      done == IF d.raised # "" THEN Failed(h, Raise(d.raised, <<>>))
              ELSE IF d.passed # Parameters[reg.handler]
                   THEN Failed(h, Raise("TypeError", <<>>))
                   ELSE Call(reg.handler, h, args, cell, in)
  IN [print_help |-> d.print_help, passed |-> d.passed, entered |-> called, done |-> done]

Directive(cmd, args, cell, in) ==
  \E o \in {Outcome(cmd, args, cell, in)} :
    /\ user_ns' = o.done.ns
    /\ _table_cache' = o.done.cache
    /\ bq_tables' = o.done.tables
    /\ got' = IF Range(_table_cache) \ Range(o.done.cache) # {} THEN {}
              ELSE IF o.done.hit THEN got \cup {o.done.lookup.chars}
              ELSE got
    /\ out' = [cmd |-> cmd, args |-> args, cell |-> cell, in |-> in,
                print_help |-> o.print_help, passed |-> o.passed, entered |-> o.entered,
                raised |-> o.done.raised, about |-> o.done.about, ret |-> o.done.ret,
                config |-> o.done.config, query |-> o.done.query, made |-> o.done.made,
                lookup |-> o.done.lookup, hit |-> o.done.hit, probed |-> o.done.probed]

(***************************************************************************)
(* The parsed arguments of each command: the flags its subparser declares, *)
(* with their defaults.                                                    *)
(***************************************************************************)
_create_sample_subparser(sql, count, method, percent) ==
  [sql |-> sql, count |-> count, method |-> method, percent |-> percent,
   field |-> None, order |-> "ascending"]

_create_udf_subparser(module) == [module |-> module]

_create_dry_run_subparser(sql) == [sql |-> sql]

_create_execute_subparser(sql) ==
  [nocache |-> FALSE, mode |-> "create", large |-> FALSE, sql |-> sql, target |-> None]

_create_pipeline_subparser(sql, action) ==
  [name |-> None, nocache |-> FALSE, mode |-> "create", large |-> FALSE, sql |-> sql,
   target |-> None, action |-> action]

_create_table_subparser == [rows |-> 25, cols |-> None]

_create_schema_subparser(item) == [item |-> item]

_create_datasets_subparser(project) == [project |-> project]

_create_tables_subparser(project, dataset) == [project |-> project, dataset |-> dataset]

_create_extract_subparser(source) ==
  [source |-> source, format |-> "csv", compress |-> FALSE, header |-> FALSE,
   delimiter |-> <<",">>, destination |-> <<"g", "s">>]

_create_load_subparser(mode, infer, table) ==
  [mode |-> mode, format |-> "csv", skip |-> 0, strict |-> FALSE, delimiter |-> <<",">>,
   quote |-> <<"\"">>, infer |-> infer, source |-> <<"g", "s">>, table |-> table]

(***************************************************************************)
(* Bounds and inputs.                                                      *)
(***************************************************************************)
NumTables == 12

MaxLookups == 13

MaxHits == 2

MaxSegments == 3

MaxUdfs == 1

MaxRows == 6

MaxPage == 4

MaxDepth == 2

TableChars ==
  <<"1", "2", "3", "4", "5", "6", "7", "8", "9", "a", "b", "c", "d", "e", "f", "g">>

TableName(i) == <<"t", TableChars[i]>>

TableIndex(name) == CHOOSE i \in 1..Len(TableChars) : TableName(i) = name

\* a table name the warehouse never holds
name_ghost == <<"t", "0">>

AllTables == {TableName(i) : i \in 1..NumTables}

NoIn == [failed |-> FALSE, errors |-> 0, fatal_error |-> 0, length |-> 0, fetched |-> 0]

Job(failed, errors, fatal_error) ==
  [NoIn EXCEPT !.failed = failed, !.errors = errors, !.fatal_error = fatal_error]

Jobs == {Job(FALSE, 0, 0), Job(FALSE, 2, 0), Job(TRUE, 0, 1), Job(TRUE, 2, 1)}

ConfigCells ==
  {NoCell, Cell(<<>>), Cell(BodyBlank), Cell(BodyRef), Cell(BodyBadRef), Cell(BodyInt),
   Cell(BodyList), Cell(BodyNested), Cell(BodyBroken), Cell(BodyYaml)}

FewJobs == {Job(FALSE, 0, 0), Job(FALSE, 2, 0), Job(TRUE, 2, 1)}

FewCells == {NoCell, Cell(BodyBlank), Cell(BodyInt)}

LoadCells == {NoCell, Cell(BodyInt), Cell(BodyBroken)}

SqlNames == {Str(name_myquery), Str(name_tmpl), Str(name_x), Str(name_nosuch)}

FewSqlNames == {Str(name_myquery), Str(name_tmpl)}

Sources == {Str(TableName(1)), Str(name_ghost), Str(name_tv), Str(name_myquery), Str(name_x)}

\* The pieces a UDF cell is put together from.
SpecAB ==
  <<"{", "{", "a", ":", "i", "n", "t", ",", "b", ":", "s", "t", "r", "i", "n", "g", "}", "}">>

SpecC == <<"{", "{", "c", ":", "f", "l", "o", "a", "t", "}", "}">>

SpecOdd == <<"{", "{", "A", "_", "1", ":", "i", "n", "t", ",", "9", "b", "}", "}">>

SpecNoToken == <<"{", "{", "{", "7", "}", "}">>

\* code with braces that are no group: f{{}}{{d}
Code == <<"f", "{", "{", "}", "}", "{", "{", "d", "}">>

Segments == {SpecAB, SpecC, SpecOdd, SpecNoToken, Code}

RECURSIVE Texts(_)
Texts(n) ==
  IF n = 0 THEN {<<>>}
  ELSE Texts(n - 1) \cup {t \o s : t \in Texts(n - 1), s \in Segments}

UdfCells == {NoCell} \cup {Cell(t) : t \in Texts(MaxSegments)}

FewUdfCells ==
  {NoCell, Cell(<<>>), Cell(BodyBlank), Cell(SpecAB \o Code \o SpecC), Cell(SpecAB),
   Cell(SpecOdd \o SpecC)}

(***************************************************************************)
(* The session: the notebook as the layer finds it, an empty table cache,  *)
(* the tables of the warehouse, and the outcome of the last directive.     *)
(* got holds the names the cache was successfully asked for since it last  *)
(* evicted an entry; steps and hits count the directives and the cache     *)
(* hits where a bound caps them.                                           *)
(***************************************************************************)
Init ==
  /\ user_ns = (name_myquery :> BoundQuery) @@ (name_tmpl :> Template)
                 @@ (name_x :> IntVal(5))
                 @@ (name_tv :> [Table(TableName(1)) EXCEPT !.n = 2])
  /\ _table_cache = <<>>
  /\ bq_tables = AllTables
  /\ out = [cmd |-> "", args |-> <<>>, cell |-> NoCell, in |-> NoIn, print_help |-> FALSE,
            passed |-> 0, entered |-> FALSE, raised |-> "", about |-> <<>>, ret |-> None,
            config |-> None, query |-> None, made |-> 0, lookup |-> None, hit |-> FALSE,
            probed |-> {}]
  /\ got = {}
  /\ steps = 0
  /\ hits = 0

Unbounded == UNCHANGED <<steps, hits>>

Sample ==
  \E sql \in SqlNames \cup {None}, cell \in ConfigCells :
    Directive("sample", _create_sample_subparser(sql, 5, "random", 10), cell, NoIn)
      /\ Unbounded

Dryrun ==
  \E sql \in FewSqlNames, cell \in FewCells :
    Directive("dryrun", _create_dry_run_subparser(sql), cell, NoIn) /\ Unbounded

Udf ==
  \E module \in {name_module, name_x, <<>>}, cell \in FewUdfCells :
    Directive("udf", _create_udf_subparser(module), cell, NoIn) /\ Unbounded

Execute ==
  \E sql \in FewSqlNames \cup {None}, cell \in FewCells :
    Directive("execute", _create_execute_subparser(sql), cell, NoIn) /\ Unbounded

Pipeline ==
  \E sql \in FewSqlNames, cell \in FewCells, action \in {"deploy", "run", "dryrun"} :
    Directive("pipeline", _create_pipeline_subparser(sql, action), cell, NoIn) /\ Unbounded

TableView ==
  \E cell \in FewCells :
    Directive("table", _create_table_subparser, cell, NoIn) /\ Unbounded

Schema ==
  \E item \in Sources, cell \in FewCells :
    Directive("schema", _create_schema_subparser(item), cell, NoIn) /\ Unbounded

Datasets ==
  \E cell \in FewCells :
    Directive("datasets", _create_datasets_subparser(<<"p">>), cell, NoIn) /\ Unbounded

Tables ==
  \E dataset \in {<<>>, <<"d">>}, cell \in FewCells :
    Directive("tables", _create_tables_subparser(<<"p">>, dataset), cell, NoIn) /\ Unbounded

Extract ==
  \E source \in Sources, cell \in FewCells, job \in FewJobs :
    Directive("extract", _create_extract_subparser(source), cell, job) /\ Unbounded

Load ==
  \E mode \in {"create", "append"}, infer \in BOOLEAN, cell \in LoadCells, job \in FewJobs :
    Directive("load", _create_load_subparser(mode, infer, Str(TableName(1))), cell, job)
      /\ Unbounded

\* Somebody deletes a table of the warehouse.
DropTable ==
  /\ TableName(1) \in bq_tables
  /\ bq_tables' = bq_tables \ {TableName(1)}
  /\ UNCHANGED <<user_ns, _table_cache, out, got>>
  /\ Unbounded

Next ==
  \/ Sample
  \/ Dryrun
  \/ Udf
  \/ Execute
  \/ Pipeline
  \/ TableView
  \/ Schema
  \/ Datasets
  \/ Tables
  \/ Extract
  \/ Load
  \/ DropTable

Spec == Init /\ [][Next]_vars

(***************************************************************************)
(* The table cache under many tables: schema directives that look tables   *)
(* up by name.  Table names are opaque to the cache, so a session uses a   *)
(* name it used before or the next one.                                    *)
(***************************************************************************)
MaxIndex(cache) ==
  IF cache = <<>> THEN 0
  ELSE CHOOSE m \in {TableIndex(cache[i]) : i \in 1..Len(cache)} :
         \A j \in 1..Len(cache) : TableIndex(cache[j]) <= m

Lookup ==
  /\ steps < MaxLookups
  /\ \E i \in 1..Min(NumTables, MaxIndex(_table_cache) + 1) :
       /\ TableName(i) \in Range(_table_cache) => hits < MaxHits
       /\ Directive("schema", _create_schema_subparser(Str(TableName(i))), NoCell, NoIn)
       /\ hits' = IF TableName(i) \in Range(_table_cache) THEN hits + 1 ELSE hits
  /\ steps' = steps + 1

NextCache ==
  \/ Lookup
  \/ DropTable

SpecCache == Init /\ [][NextCache]_vars

(***************************************************************************)
(* The udf directive over many cell bodies.                                *)
(***************************************************************************)
UdfStep ==
  /\ steps < MaxUdfs
  /\ \E cell \in UdfCells : Directive("udf", _create_udf_subparser(name_module), cell, NoIn)
  /\ steps' = steps + 1
  /\ UNCHANGED hits

NextUdf == UdfStep

SpecUdf == Init /\ [][NextUdf]_vars

(***************************************************************************)
(* The table viewer over many tables: the notebook renders a table, with   *)
(* the row count the warehouse reports for it (negative when it does not   *)
(* know), the rows it fetched for the first page, and the page size (25    *)
(* unless the caller gives one).                                           *)
(***************************************************************************)
Pages == (1..MaxPage) \cup {25}

Hints == (-1..MaxRows) \cup {1000}

Fetched(rows_per_page) == {n \in (0..MaxRows) \cup {25} : n <= rows_per_page}

\* _table_viewer(table, rows_per_page): line 686, then lines 721-730
View ==
  /\ \E name \in {TableName(1), name_ghost}, rows_per_page \in Pages, length \in Hints :
       \E fetched \in Fetched(rows_per_page) :
         out' = [cmd |-> "_table_viewer",
                 args |-> [table |-> Table(name), rows |-> rows_per_page],
                 cell |-> NoCell,
                 in |-> [NoIn EXCEPT !.length = length, !.fetched = fetched],
                 print_help |-> FALSE, passed |-> 2, entered |-> TRUE, raised |-> "",
                 about |-> <<>>,
                 ret |-> IF ~exists(bq_tables, Table(name))
                         THEN Val("NotExistMessage", name, 0, <<>>)
                         ELSE _table_viewer(Table(name), rows_per_page, length, fetched),
                 config |-> None, query |-> None, made |-> 0, lookup |-> None,
                 hit |-> FALSE, probed |-> {}]
  /\ UNCHANGED <<user_ns, _table_cache, bq_tables, got, steps, hits>>

NextViewer == View

SpecViewer == Init /\ [][NextViewer]_vars

(***************************************************************************)
(* replace_vars over many configs: scalars, and dicts and lists of them    *)
(* nested up to MaxDepth, under environments that bind the names the       *)
(* strings spell.                                                          *)
(***************************************************************************)
Scalars ==
  {IntVal(7), Str(name_b), Str(name_x), Str(<<"$">> \o name_x), Str(<<"$", "$">> \o name_x)}

RECURSIVE ConfigNodes(_)
ConfigNodes(depth) ==
  IF depth = 0 THEN Scalars
  ELSE LET inner == ConfigNodes(depth - 1)
       IN inner
            \cup {Dict(<<Item(name_a, n)>>) : n \in inner}
            \cup {List(<<n>>) : n \in inner}
            \cup {List(<<n, m>>) : n \in inner, m \in Scalars}
            \cup {Dict(<<Item(name_a, n), Item(name_x, m)>>) : n \in Scalars, m \in inner}

Envs ==
  {[k \in {} |-> None],
   (name_x :> IntVal(5)),
   (name_x :> IntVal(5)) @@ (name_b :> Str(<<"$">> \o name_x))}

\* replace_vars(config, env), as line 338 calls it: one call in a session
ReplaceVars ==
  /\ steps = 0
  /\ steps' = 1
  /\ \E config \in ConfigNodes(MaxDepth), env \in Envs :
       \E r \in {replace_vars(config, env)} :
         out' = [cmd |-> "replace_vars", args |-> [config |-> config, env |-> env],
                 cell |-> NoCell, in |-> NoIn, print_help |-> FALSE, passed |-> 2,
                 entered |-> TRUE, raised |-> r.raised, about |-> r.about, ret |-> None,
                 config |-> r.val, query |-> None, made |-> 0, lookup |-> None,
                 hit |-> FALSE, probed |-> {}]
  /\ UNCHANGED <<user_ns, _table_cache, bq_tables, got, hits>>

NextReplace == ReplaceVars

SpecReplace == Init /\ [][NextReplace]_vars

(***************************************************************************)
(* Properties of the dispatcher.                                           *)
(***************************************************************************)
Body(cell) == IF cell.none THEN <<>> ELSE cell.text

\* C1: for every registered command, a directive whose command prohibits a
\* cell fails with the unexpected-body error when its body is non-empty after
\* trimming whitespace, and one whose command requires a cell fails with the
\* missing-body error when its body is empty; the handler is not invoked.
C1_CellModeEnforced ==
  out.cmd \in CommandNames =>
    LET reg == _create_bigquery_parser[out.cmd]
    IN /\ (reg.cell_prohibited /\ strip(Body(out.cell)) # <<>>)
            => (out.raised = "UnexpectedCell" /\ ~out.entered /\ out.passed = 0)
       /\ (reg.cell_required /\ Body(out.cell) = <<>>)
            => (out.raised = "MissingCell" /\ ~out.entered /\ out.passed = 0)

C1_Witness ==
  /\ out.cmd = "udf"
  /\ out.cell = Cell(<<>>)
  /\ out.raised = "MissingCell"
  /\ ~out.entered

\* C2: for each of the eleven commands, when the cell check passes the
\* handler is called with as many arguments as its def declares, so that
\* the handler is entered.
C2_HandlerEntered ==
  (out.cmd \in CommandNames /\ out.raised \notin {"UnexpectedCell", "MissingCell"})
    => /\ out.passed = Parameters[_create_bigquery_parser[out.cmd].handler]
       /\ out.entered

(***************************************************************************)
(* Properties of the config parser and of the query resolver.              *)
(***************************************************************************)
ParseErrors == {"ValueError", "YAMLError", "AttributeError", "Exception"}

\* The directives that parse their cell as a config and resolve a query.
IsQueryDirective(o) ==
  /\ o.cmd \in {"sample", "execute", "pipeline"}
  /\ o.entered
  /\ o.cmd = "pipeline" => o.args.action # "deploy"

\* The environment such a directive substitutes from.
EnvOf(o) == IF o.cmd = "pipeline" THEN FunctionCalls(user_ns) ELSE user_ns

\* $name, but not the escape $$
IsReference(chars) ==
  /\ Len(chars) >= 1
  /\ chars[1] = "$"
  /\ ~(Len(chars) >= 2 /\ chars[2] = "$")

\* The names that the string scalars of a node refer to.
RECURSIVE References(_)
References(node) ==
  UNION {IF IsContainer(node.kids[i].v) THEN References(node.kids[i].v)
         ELSE IF IsString(node.kids[i].v) /\ IsReference(node.kids[i].v.chars)
              THEN {Tail(node.kids[i].v.chars)}
              ELSE {} : i \in 1..Len(node.kids)}

\* A node with every reference replaced by the value env binds to its name.
RECURSIVE Resolved(_, _)
Resolved(node, env) ==
  [node EXCEPT !.kids =
     [i \in 1..Len(node.kids) |->
        LET v == node.kids[i].v
        IN Item(node.kids[i].k,
                IF IsContainer(v) THEN Resolved(v, env)
                ELSE IF IsString(v) /\ IsReference(v.chars) THEN env[Tail(v.chars)]
                ELSE IF IsString(v) /\ startswith(v.chars, "$") THEN Str(Tail(v.chars))
                ELSE v)]]

\* C3: in the config of a cell every string scalar $name, in dicts and lists
\* at any depth, is replaced by the value the environment binds to name, and
\* the directive fails with the error naming name when name is not bound.
C3_Substitutes ==
  (IsQueryDirective(out) /\ ~out.cell.none /\ loads(out.cell.text).raised = "")
    => LET parsed == loads(out.cell.text).val
           env == EnvOf(out)
       IN IF References(parsed) \subseteq DOMAIN env
          THEN out.config = Resolved(parsed, env)
          ELSE /\ out.raised = "Exception"
               /\ out.about \in References(parsed) \ DOMAIN env

\* The directive names, with --sql, a query object bound in the notebook.
NamesBoundQuery(o) ==
  /\ IsQueryDirective(o)
  /\ o.args.sql.t = "str"
  /\ o.args.sql.chars \in DOMAIN user_ns
  /\ user_ns[o.args.sql.chars].t = "Query"

\* Some string scalar of the node starts with $.
RECURSIVE HasDollar(_)
HasDollar(node) ==
  \E i \in 1..Len(node.kids) :
    \/ IsContainer(node.kids[i].v) /\ HasDollar(node.kids[i].v)
    \/ IsString(node.kids[i].v) /\ startswith(node.kids[i].v.chars, "$")

\* C4 as claimed: a directive naming a bound query object resolves to that
\* object, constructing no query, for any body whatsoever.
C4_AnyBody ==
  NamesBoundQuery(out)
    => /\ out.raised = ""
       /\ out.query = user_ns[out.args.sql.chars]
       /\ out.made = 0

\* C4: a directive naming a bound query object never constructs a query.  It
\* resolves to that very object, whatever the config says, when the body is
\* absent, blank, or parses to a config none of whose strings starts with $;
\* with any other body it fails in the config parser, before the resolver.
C4_BoundQueryWins ==
  NamesBoundQuery(out)
    => IF out.cell.none
          \/ (loads(out.cell.text).raised = "" /\ ~HasDollar(loads(out.cell.text).val))
       THEN /\ out.raised = ""
            /\ out.query = user_ns[out.args.sql.chars]
            /\ out.made = 0
       ELSE /\ out.raised \in {"ValueError", "YAMLError", "AttributeError"}
            /\ out.query = None
            /\ out.made = 0

C4_Witness ==
  /\ out.cmd = "sample"
  /\ out.args.sql = Str(name_myquery)
  /\ out.cell = Cell(BodyInt)
  /\ NonEmpty(out.config)
  /\ out.query = BoundQuery

\* C5: when the name is bound to a template, the directive builds a new query
\* on the text of the template whose parameters are the defaults of the
\* template overridden by the config: each key of the config has the value of
\* the config, each key of the defaults alone keeps its default.
C5_ConfigOverridesDefaults ==
  (/\ IsQueryDirective(out)
   /\ out.raised \notin ParseErrors
   /\ out.args.sql.t = "str"
   /\ out.args.sql.chars \in DOMAIN user_ns
   /\ user_ns[out.args.sql.chars].t = "SqlStatement")
    => LET template == user_ns[out.args.sql.chars]
           config == IF NonEmpty(out.config) THEN out.config.kids ELSE <<>>
           params == out.query.kids
       IN /\ out.raised = ""
          /\ out.made = 1
          /\ out.query.t = "Query"
          /\ out.query.n = 0
          /\ out.query.chars = template.chars
          /\ Keys(params) = Keys(template.kids) \cup Keys(config)
          /\ Cardinality(Keys(params)) = Len(params)
          /\ \A k \in Keys(config) : Get(params, k) = Get(config, k)
          /\ \A k \in Keys(template.kids) \ Keys(config) :
               Get(params, k) = Get(template.kids, k)

C5_Witness ==
  /\ out.cmd = "sample"
  /\ out.args.sql = Str(name_tmpl)
  /\ out.cell = Cell(BodyInt)
  /\ out.made = 1
  /\ Get(out.query.kids, name_a) = IntVal(7)
  /\ Get(out.query.kids, name_b) = IntVal(2)
  /\ Get(out.query.kids, name_x) = IntVal(3)

Last(s) == s[Len(s)]

Evicted == Range(_table_cache) \ Range(_table_cache')

Entered == Range(_table_cache') \ Range(_table_cache)

\* C7: the cache never holds more than 10 names, and when a new name enters
\* a cache that holds 10, exactly one name leaves it: the one touched least
\* recently.
C7_CacheBounded ==
  [][/\ Len(_table_cache') <= 10
     /\ Cardinality(Range(_table_cache')) = Len(_table_cache')
     /\ (Len(_table_cache) = 10 /\ Entered # {})
          => /\ Evicted = {Head(_table_cache)}
             /\ Len(_table_cache') = 10]_vars

C7_Witness ==
  /\ Len(_table_cache) = 10
  /\ out.lookup = Table(TableName(11))
  /\ Last(_table_cache) = TableName(11)
  /\ TableName(1) \notin Range(_table_cache)

\* C8 as claimed: once the cache was successfully asked for k, the next
\* eviction removes another name than k, whenever the cache holds more than
\* one entry.
C8_NextEvictionSparesGot ==
  [][Len(_table_cache) > 1 => Evicted \cap got = {}]_vars

\* C8: a successful get of k returns the handle of k and makes k the most
\* recently touched entry, so that an eviction by the next lookup removes
\* another name than k whenever the cache holds more than one entry, even if
\* k was the entry inserted first.
C8_GetRefreshes ==
  [][steps' # steps =>
       /\ out'.hit => /\ Last(_table_cache') = out'.args.item.chars
                      /\ out'.lookup = Table(out'.args.item.chars)
                      /\ Range(_table_cache') = Range(_table_cache)
       /\ (out.cmd = "schema" /\ out.hit /\ Len(_table_cache) > 1)
            => out.args.item.chars \in Range(_table_cache')]_vars

C8_Witness ==
  _table_cache =
    <<TableName(3), TableName(4), TableName(5), TableName(6), TableName(7), TableName(8),
      TableName(9), TableName(10), TableName(1), TableName(11)>>

\* C9: a name enters the cache only on a miss whose existence check against
\* the warehouse succeeded; a lookup of a table that does not exist gives
\* nothing and leaves the cache as it was; a hit gives the cached handle with
\* no existence check, also for a table deleted since it was cached.
C9_CheckedOnMissOnly ==
  [][steps' # steps =>
       LET name == out'.args.item.chars
       IN /\ Entered \subseteq {name}
          /\ name \in Entered
               => (name \in bq_tables /\ out'.probed = {name} /\ ~out'.hit)
          /\ (name \notin Range(_table_cache) /\ name \notin bq_tables)
               => /\ out'.lookup = None
                  /\ _table_cache' = _table_cache
                  /\ out'.probed = {name}
          /\ name \in Range(_table_cache)
               => /\ out'.hit
                  /\ out'.lookup = Table(name)
                  /\ out'.probed = {}]_vars

C9_Witness ==
  /\ out.cmd = "schema"
  /\ out.hit
  /\ out.lookup = Table(TableName(1))
  /\ out.probed = {}
  /\ TableName(1) \notin bq_tables

(***************************************************************************)
(* Properties of the UDF declaration parser, under SpecUdf.                *)
(***************************************************************************)
\* tokens paired consecutively: (1st, 2nd), (3rd, 4th), ...
Paired(tokens) == [i \in 1..(Len(tokens) \div 2) |-> <<tokens[2 * i - 1], tokens[2 * i]>>]

\* C10: the first {{...}} group is the input shape and the second the output
\* shape; each gives its identifier tokens paired consecutively, in order, as
\* (name, type).  Fewer than two groups is the missing-spec error, an odd
\* number of tokens in either of the two groups a malformed-spec error.
C10_UdfSpecParsed ==
  (out.cmd = "udf" /\ out.entered)
    => LET js == out.cell.text
           groups == findall_spec(js, 1)
       IN /\ js = SpecAB \o SpecC
               => /\ out.raised = ""
                  /\ user_ns[name_module] =
                       UDF(<<<<<<"a">>, <<"i", "n", "t">>>>,
                             <<<<"b">>, <<"s", "t", "r", "i", "n", "g">>>>>>,
                           <<<<<<"c">>, <<"f", "l", "o", "a", "t">>>>>>, name_module, js)
          /\ js = SpecAB => out.raised = "MissingSpec"
          /\ js = SpecOdd \o SpecC => out.raised = "MalformedInputSpec"
          /\ IF Len(groups) < 2 THEN out.raised = "MissingSpec"
             ELSE LET ins == findall_part(groups[1], 1)
                      outs == findall_part(groups[2], 1)
                  IN IF Len(ins) % 2 = 1 \/ Len(outs) % 2 = 1
                     THEN out.raised \in {"MalformedInputSpec", "MalformedOutputSpec"}
                     ELSE /\ out.raised = ""
                          /\ user_ns[name_module] =
                               UDF(Paired(ins), Paired(outs), name_module, js)

C10_Witness ==
  /\ out.cmd = "udf"
  /\ out.cell.text = SpecAB \o SpecC
  /\ out.raised = ""
  /\ name_module \in DOMAIN user_ns
  /\ user_ns[name_module].t = "UDF"

(***************************************************************************)
(* Properties of the table viewer, under SpecViewer.                       *)
(***************************************************************************)
Viewed == out.cmd = "_table_viewer" /\ out.ret.t # "NotExistMessage"

\* C11: the total of the viewer is the hint when the hint is a known,
\* non-negative total, the fetched row count when the hint is unknown and
\* fewer rows than a page were fetched, and the unknown hint otherwise; the
\* chart is the single-page one exactly when that total is known and at most
\* the page size, and the paged one in every other case.
C11_PageState ==
  Viewed
    => LET hint == out.in.length
           fetched == out.in.fetched
           rowsPerPage == out.args.rows
           total == out.ret.n
       IN /\ hint >= 0 => total = hint
          /\ (hint < 0 /\ fetched < rowsPerPage) => total = fetched
          /\ (hint < 0 /\ fetched >= rowsPerPage) => (total = hint /\ total < 0)
          /\ out.ret.t \in {"table", "paged_table"}
          /\ out.ret.t = "table" <=> (0 <= total /\ total <= rowsPerPage)
          /\ (hint = -1 /\ fetched = 3 /\ rowsPerPage = 25)
               => (total = 3 /\ out.ret.t = "table")
          /\ (hint = 1000 /\ rowsPerPage = 25) => out.ret.t = "paged_table"

C11_Witness ==
  /\ Viewed
  /\ out.in.length = -1
  /\ out.in.fetched = 3
  /\ out.args.rows = 25
  /\ out.ret = Val("table", TableName(1), 3, <<>>)

(***************************************************************************)
(* Properties of failures and of results, under Spec.                      *)
(***************************************************************************)
\* The directive failed in the dispatcher: something was raised and the body
\* of the handler did not run.
DispatcherFailed == out.cmd \in CommandNames /\ out.raised # "" /\ ~out.entered

\* C12: whenever the dispatcher fails a directive, the usage text of the
\* command was printed before the error was raised, and the handler did not
\* run.
C12_UsageBeforeError ==
  DispatcherFailed => (out.print_help /\ out.passed = 0 /\ out.ret = None)

\* The directive got as far as the job: it raised nothing and did not stop
\* at a message about its source or its table.
JobRan ==
  /\ out.cmd \in {"extract", "load"}
  /\ out.entered
  /\ out.raised = ""
  /\ out.ret.t \notin {"NoSuchSourceMessage", "NotExistMessage", "AlreadyExistsMessage",
                       "CannotLoadMessage"}

\* C13: an extract or load directive never raises on the outcome of its job.
\* A failed job gives the failure result carrying the fatal error, also when
\* the job has errors; a job that did not fail but has errors gives the
\* completed-with-errors result; a job with neither gives no error result.
C13_JobOutcome ==
  (out.cmd \in {"extract", "load"} /\ out.entered)
    => LET job == out.in
           failure == IF out.cmd = "extract" THEN "ExtractFailed" ELSE "LoadFailed"
           partial == IF out.cmd = "extract" THEN "ExtractErrors" ELSE "LoadErrors"
       IN /\ out.raised \in {"", "AttributeError", "ValueError"}
          /\ out.ret.t \in {failure, partial} => JobRan
          /\ JobRan
               => /\ job.failed => out.ret = Val(failure, <<>>, job.fatal_error, <<>>)
                  /\ (~job.failed /\ job.errors # 0)
                       => out.ret = Val(partial, <<>>, job.errors, <<>>)
                  /\ (~job.failed /\ job.errors = 0) => out.ret = None

C13_Witness ==
  /\ JobRan
  /\ out.cmd = "extract"
  /\ out.in.failed
  /\ out.in.errors # 0
  /\ out.ret.t = "ExtractFailed"

(***************************************************************************)
(* Properties of replace_vars, under SpecReplace.                          *)
(***************************************************************************)
\* No string scalar of the node, nor the node itself, starts with $.
NoDollar(node) ==
  /\ ~HasDollar(node)
  /\ ~(IsString(node) /\ startswith(node.chars, "$"))

\* C14: substitution applied to a config in which no string starts with $
\* gives the same config, every value unchanged, under any environment, so
\* that applying it to its own result gives that result again; a scalar that
\* is no string, or a string that spells a bound name without $, is not
\* replaced.
C14_NoDollarUnchanged ==
  (out.cmd = "replace_vars" /\ NoDollar(out.args.config))
    => /\ out.raised = ""
       /\ out.config = out.args.config
       /\ replace_vars(out.config, out.args.env) = Return(out.config)

C14_Witness ==
  /\ out.cmd = "replace_vars"
  /\ out.args.config = List(<<Dict(<<Item(name_a, Str(name_x))>>), IntVal(7)>>)
  /\ name_x \in DOMAIN out.args.env
  /\ out.raised = ""
  /\ out.config = out.args.config

\* C15: every handler reads from the parsed arguments only flags that the
\* subparser of its command declares, so that no handler that was entered
\* fails on a missing argument key.
C15_ReadsDeclared ==
  (out.cmd \in CommandNames /\ out.entered)
    => /\ Reads[_create_bigquery_parser[out.cmd].handler] \subseteq DOMAIN out.args
       /\ out.raised # "KeyError"

\* C16: a udf directive that fails, with the missing-spec or a malformed-spec
\* error or any other, leaves the environment exactly as it was; one that
\* succeeds changes exactly one binding, the one named by --module, which
\* then holds the new UDF made of the parsed inputs and outputs and the cell.
C16_UdfBindsAfterValidation ==
  [][out'.cmd = "udf"
       => LET module == out'.args.module
              js == out'.cell.text
              spec == parse_udf_spec(js)
          IN IF out'.raised # "" THEN user_ns' = user_ns
             ELSE /\ spec.raised = ""
                  /\ DOMAIN user_ns' = DOMAIN user_ns \cup {module}
                  /\ \A k \in DOMAIN user_ns \ {module} : user_ns'[k] = user_ns[k]
                  /\ user_ns'[module] = UDF(spec.inputs, spec.outputs, module, js)]_vars

C16_Witness ==
  /\ out.cmd = "udf"
  /\ out.args.module = name_x
  /\ out.raised = "MalformedInputSpec"
  /\ user_ns[name_x] = IntVal(5)
  /\ name_module \in DOMAIN user_ns
  /\ user_ns[name_module].t = "UDF"

====
